---- MODULE Spec2Model ----
(***************************************************************************)
(* Model of packages/form-actions-nuxt/src/module.ts: the full scan run by *)
(* the "nitro:config" hook and the incremental handler of "builder:watch". *)
(* Paths and routes are sequences of one-character strings, so that the    *)
(* regular expression of getActionRoute is matched as the engine does.     *)
(* Both hooks are async functions: each action below is one synchronous    *)
(* segment of a hook, from one await to the next.                          *)
(***************************************************************************)
EXTENDS Integers, Sequences, FiniteSets, TLC

\* ---------------------------------------------------------------- bounds
MaxEvents == 2      \* watch events delivered in one behaviour
MaxEdits == 1       \* edits of the action directory after the full scan
MaxScans == 2       \* calls of the nitro:config hook in one behaviour

\* ---------------------------------------------------------------- strings
ActionsSlash == <<"a", "c", "t", "i", "o", "n", "s", "/">>
DotTs == <<".", "t", "s">>
ServerActions == <<"s", "e", "r", "v", "e", "r", "/", "a", "c", "t", "i", "o", "n", "s">>
NITRO_LOADER_PREFIX == <<"_", "_", "l", "o", "a", "d", "e", "r", "s", "_", "_">>
loaderDirname == <<".", "l", "o", "a", "d", "e", "r">>
srcDir == <<"/", "p">>
Slash == <<"/">>

\* s[from..to], empty when the range is empty
Sub(s, from, to) == IF from > to THEN << >> ELSE SubSeq(s, from, to)

\* pat occurs in s at position i
OccursAt(s, pat, i) ==
    /\ i >= 1
    /\ i + Len(pat) - 1 <= Len(s)
    /\ \A k \in 1..Len(pat) : s[i + k - 1] = pat[k]

\* first position >= from at which pat occurs in s, 0 when there is none
IndexOf(s, pat, from) ==
    LET hits == {i \in from..Len(s) : OccursAt(s, pat, i)}
    IN  IF hits = {} THEN 0 ELSE CHOOSE i \in hits : \A j \in hits : i <= j

\* last position at which pat occurs in s, 0 when there is none
LastIndexOf(s, pat) ==
    LET hits == {i \in 1..Len(s) : OccursAt(s, pat, i)}
    IN  IF hits = {} THEN 0 ELSE CHOOSE i \in hits : \A j \in hits : i >= j

\* String.prototype.includes
Includes(s, pat) == IndexOf(s, pat, 1) # 0

\* directory part of a path (everything before the last "/")
Dirname(p) == Sub(p, 1, LastIndexOf(p, Slash) - 1)

\* ---------------------------------------------------------------- module.ts
NoRoute == << >>

\* /actions\/(.*?)\.ts/.exec(actionPath)?.[1]: the leftmost "actions/", then
\* the shortest run of characters that is followed by ".ts". No match, or an
\* empty group, is NoRoute: both are falsy and make getActionRoute throw.
ActionRegexGroup(actionPath) ==
    LET i == IndexOf(actionPath, ActionsSlash, 1)
        j == IF i = 0 THEN 0 ELSE IndexOf(actionPath, DotTs, i + Len(ActionsSlash))
    IN  IF i = 0 \/ j = 0 THEN NoRoute
        ELSE Sub(actionPath, i + Len(ActionsSlash), j - 1)

getActionRoute(actionPath) == ActionRegexGroup(actionPath)

\* the guard of the throw left out
Throws_never(route) == FALSE

\* if (!actionRoute) throw new Error(...)
Throws(route) == route = NoRoute

getLoaderRoute(route) == Slash \o NITRO_LOADER_PREFIX \o Slash \o route

actionDirectoryPath == srcDir \o Slash \o ServerActions

\* resolve(actionDirectoryPath, "../.loader")
loaderDirectory == Dirname(actionDirectoryPath) \o Slash \o loaderDirname

\* `${loaderDirectory}/${actionRoute}.ts`
LoaderHandlerPath(actionRoute) == loaderDirectory \o Slash \o actionRoute \o DotTs

\* ---------------------------------------------------------------- files
\* What an action file holds: which exports magicast finds in it.
\*   "N" no export, "H" default only, "L" loader only, "HL" both,
\*   "X" source that loadFile cannot parse.
Absent == "-"
Contents == {"N", "H", "L", "HL", "X"}
HasDefault(c) == c \in {"H", "HL"}
HasLoader(c) == c \in {"L", "HL"}
Parses(c) == c \in {"N", "H", "L", "HL"}

F_a == actionDirectoryPath \o <<"/", "a", ".", "t", "s">>
F_abak == actionDirectoryPath \o <<"/", "a", ".", "t", "s", ".", "b", "a", "k">>
F_bc == actionDirectoryPath \o <<"/", "b", "/", "c", ".", "t", "s">>
F_d == actionDirectoryPath \o <<"/", "d", ".", "j", "s">>
F_e == actionDirectoryPath \o <<"/", "e", ".", "t", "s">>
F_app == srcDir \o <<"/", "a", "p", "p", ".", "v", "u", "e">>

\* the files the action directory can hold, in the order readdir lists them
WalkOrder == <<F_a, F_abak, F_bc, F_d, F_e>>
Pool == {WalkOrder[i] : i \in 1..Len(WalkOrder)}
\* the paths a watch event can carry
EventPaths == {F_a, F_bc, F_d, F_e, F_app}
\* the files the developer edits while the watcher runs
Editable == {F_a, F_bc, F_e}
Events == {"add", "change", "unlink"}

\* chunks of a generated file, in the order they were written
GENERATED_TEXT == [kind |-> "banner", src |-> << >>, ver |-> Absent]
CodeOf(path, c) == [kind |-> "code", src |-> path, ver |-> c]
GitignoreText == [kind |-> "star", src |-> << >>, ver |-> Absent]
GitignorePath == loaderDirectory \o <<"/", ".", "g", "i", "t", "i", "g", "n", "o", "r", "e">>

NoMethod == "undefined"

VARIABLES
    disk,            \* action directory: path -> content, or Absent
    dirs,            \* directories that exist at or below loaderDirectory
    gen,             \* files below loaderDirectory: path -> sequence of chunks
    serverLoaders,   \* runtimeConfig.public.__serverLoaders__
    loaderMap,       \* the Map of loader entries, in insertion order
    nitroHandlers,   \* nitro.handlers
    serverHandlers,  \* nuxt.options.serverHandlers
    shared,          \* the host hands nuxt.options.serverHandlers as nitro.handlers
    decl,            \* the loader entries rendered in the declaration artifact
    declared,        \* how many times addLoaderTypes() has registered the template
    scanPc,          \* position of the nitro:config hook
    scanTodo,        \* paths walkFiles has still to yield
    scanCur,         \* the file the scan is processing
    scanSeen,        \* paths the scan has taken from walkFiles so far
    tasks,           \* suspended builder:watch invocations, by slot
    nEvents,         \* watch events delivered so far
    nEdits,          \* edits of the action directory so far
    unseen,          \* paths edited since the last watch event for them
    nScans,          \* calls of the nitro:config hook so far
    last,            \* what the last step did
    rq,              \* route derivation alone: the path under test, by parts
    rs               \* route derivation alone: the derived route

vars == <<disk, dirs, gen, serverLoaders, loaderMap, nitroHandlers, serverHandlers,
          shared, decl, declared, scanPc, scanTodo, scanCur, scanSeen, tasks,
          nEvents, nEdits, unseen, nScans, last, rq, rs>>

\* ---------------------------------------------------------------- registry
LoaderEntry(route, handler) ==
    [name |-> route, filePath |-> handler, url |-> getLoaderRoute(route)]

\* Map.prototype.set: an existing key keeps its place, a new key goes last
MapSet(m, e) ==
    IF \E k \in 1..Len(m) : m[k].name = e.name
    THEN [k \in 1..Len(m) |-> IF m[k].name = e.name THEN e ELSE m[k]]
    ELSE Append(m, e)

MapKeys(m) == {m[k].name : k \in 1..Len(m)}

Range(q) == {q[k] : k \in 1..Len(q)}

\* nitro.handlers.push({ route, handler: actionPath, formAction: true })
ActionRegistration(route, path) ==
    [method |-> NoMethod, route |-> Slash \o route, lazy |-> FALSE,
     handler |-> path, formAction |-> TRUE]

\* nitro.handlers.push({ method: "get", route, lazy: true, handler })
LoaderRegistration(route, handler) ==
    [method |-> "get", route |-> getLoaderRoute(route), lazy |-> TRUE,
     handler |-> handler, formAction |-> FALSE]

\* addServerHandler({ method: "post", route: `/${actionRoute}`, lazy: true, handler: path })
PostRegistration(route, path) ==
    [method |-> "post", route |-> Slash \o route, lazy |-> TRUE,
     handler |-> path, formAction |-> FALSE]

\* the comparison of the filter inverted
removeLoaderFromServerLoader_inverted(sl, actionRoute) ==
    SelectSeq(sl, LAMBDA r : r = actionRoute)

\* serverLoaders().filter(route => route !== actionRoute); the includes() guard
\* around it only skips a filter that would change nothing
removeLoaderFromServerLoader(sl, actionRoute) ==
    SelectSeq(sl, LAMBDA r : r # actionRoute)

\* nuxt.options.serverHandlers.some(handler => handler.handler === path)
hasHandler(sh, path) == \E k \in 1..Len(sh) : sh[k].handler = path

\* ---------------------------------------------------------------- node:fs
\* fsp.writeFile / fsp.appendFile fail with ENOENT when the directory of the
\* file does not exist; nothing in the module creates a directory below
\* loaderDirectory.
CanWrite(ds, p) == Dirname(p) \in ds

fspWriteFile(g, p, chunk) ==
    [q \in (DOMAIN g) \cup {p} |-> IF q = p THEN <<chunk>> ELSE g[q]]

\* the appended chunk is lost
fspAppendFile_lost(g, p, chunk) ==
    [q \in (DOMAIN g) \cup {p} |-> IF q \in DOMAIN g THEN g[q] ELSE << >>]

fspAppendFile(g, p, chunk) ==
    [q \in (DOMAIN g) \cup {p} |->
        IF q = p THEN (IF p \in DOMAIN g THEN g[p] ELSE << >>) \o <<chunk>> ELSE g[q]]

\* walkFiles(actionDirectoryPath): the files on disk, depth first in readdir order
walkFiles(d) == SelectSeq(WalkOrder, LAMBDA p : d[p] # Absent)

\* ---------------------------------------------------------------- state
NoFile == [path |-> << >>, route |-> NoRoute, file |-> Absent]
Step(op) == [op |-> op, event |-> "", path |-> << >>, route |-> NoRoute, added |-> FALSE]
Did(op, event, path, route, added) ==
    [op |-> op, event |-> event, path |-> path, route |-> route, added |-> added]
NoQuery == [prefix |-> << >>, segs |-> << >>, name |-> << >>, ext |-> << >>]

\* What each file of the pool can hold. The contents of d.js are never read
\* (its route cannot be derived).
ContentsOf(p) ==
    IF p = F_a THEN {"H", "HL", "X"}
    ELSE IF p = F_abak THEN {"HL"}
    ELSE IF p = F_bc THEN {"L"}
    ELSE IF p = F_e THEN {"L"}
    ELSE {"H"}

Layout(a, abak, bc, d, e) ==
    (F_a :> a) @@ (F_abak :> abak) @@ (F_bc :> bc) @@ (F_d :> d) @@ (F_e :> e)

\* The action directory when the module is set up: two loaders; two files
\* with one derived route; a loader in a nested directory before another
\* file; a file without route before another file; a file that does not
\* parse before another file; one file with the primary export only.
InitDisks ==
    { Layout("HL", Absent, Absent, Absent, "L"),
      Layout("H", "HL", Absent, Absent, Absent),
      Layout(Absent, Absent, "L", Absent, "L"),
      Layout(Absent, Absent, Absent, "H", "L"),
      Layout("X", Absent, Absent, Absent, "L"),
      Layout("H", Absent, Absent, Absent, Absent) }

Init ==
    /\ disk \in InitDisks
    /\ dirs = {}
    /\ gen = << >>
    /\ serverLoaders = << >>
    /\ loaderMap = << >>
    /\ nitroHandlers = << >>
    /\ serverHandlers = << >>
    /\ shared \in BOOLEAN
    /\ decl = << >>
    /\ declared = 0
    /\ scanPc = "init"
    /\ scanTodo = << >>
    /\ scanCur = NoFile
    /\ scanSeen = << >>
    /\ tasks = << >>
    /\ nEvents = 0
    /\ nEdits = 0
    /\ unseen = {}
    /\ nScans = 1
    /\ last = Step("setup")
    /\ rq = <<NoQuery, NoQuery>>
    /\ rs = <<NoRoute, NoRoute>>

\* the registrations put in front of the list instead of at its end
NitroPush_unshift(hs) ==
    /\ nitroHandlers' = hs \o nitroHandlers
    /\ serverHandlers' = IF shared THEN hs \o serverHandlers ELSE serverHandlers

\* a push on nitro.handlers, seen through nuxt.options.serverHandlers as well
\* when the host hands the same array
NitroPush(hs) ==
    /\ nitroHandlers' = nitroHandlers \o hs
    /\ serverHandlers' = IF shared THEN serverHandlers \o hs ELSE serverHandlers

\* the list replaced by the new registrations
ServerPush_overwrite(hs) ==
    /\ serverHandlers' = hs
    /\ nitroHandlers' = IF shared THEN hs ELSE nitroHandlers

\* addServerHandler pushes on nuxt.options.serverHandlers
ServerPush(hs) ==
    /\ serverHandlers' = serverHandlers \o hs
    /\ nitroHandlers' = IF shared THEN nitroHandlers \o hs ELSE nitroHandlers

\* getContents() of the declaration template: the entries of loaderMap, in
\* insertion order. addTemplate only registers the template and the promise
\* of updateTemplates() is not awaited: the host renders the template after
\* the synchronous segment that asked for it, so the rendering reads the map
\* as that segment leaves it.
getContents(m) == m

\* ---------------------------------------------------------------- nitro:config
\* rm -r loaderDirectory, mkdir, write .gitignore, start the walk
ScanStart ==
    /\ scanPc = "init"
    /\ dirs' = {loaderDirectory}
    /\ gen' = fspWriteFile(<< >>, GitignorePath, GitignoreText)
    /\ scanTodo' = walkFiles(disk)
    /\ scanPc' = "next"
    /\ last' = Step("scan")
    /\ UNCHANGED <<disk, serverLoaders, loaderMap, nitroHandlers, serverHandlers, shared,
                   decl, declared, scanCur, scanSeen, tasks, nEvents, nEdits, unseen, nScans, rq, rs>>

\* the head of the for-await loop: next path, getActionRoute, loadFile started;
\* after the last path addLoaderTypes() registers the declaration template
ScanNext ==
    /\ scanPc = "next"
    /\ IF scanTodo = << >>
       THEN /\ decl' = getContents(loaderMap)
            /\ declared' = declared + 1
            /\ scanPc' = "done"
            /\ last' = Step("scanDone")
            /\ UNCHANGED <<scanTodo, scanCur, scanSeen>>
       ELSE LET actionPath == Head(scanTodo)
                actionRoute == getActionRoute(actionPath)
            IN  /\ scanTodo' = Tail(scanTodo)
                /\ scanSeen' = Append(scanSeen, actionPath)
                /\ scanCur' = [path |-> actionPath, route |-> actionRoute, file |-> Absent]
                /\ IF Throws(actionRoute)
                   THEN scanPc' = "aborted" /\ last' = Step("scanAbort")
                   ELSE scanPc' = "load" /\ last' = Step("scan")
                /\ UNCHANGED <<decl, declared>>
    /\ UNCHANGED <<disk, dirs, gen, serverLoaders, loaderMap, nitroHandlers, serverHandlers,
                   shared, tasks, nEvents, nEdits, unseen, nScans, rq, rs>>

\* loadFile resolves; the default export is registered; writeLoader starts
ScanLoad ==
    /\ scanPc = "load"
    /\ LET c == disk[scanCur.path]
       IN  IF ~Parses(c)
           THEN /\ scanPc' = "aborted"
                /\ last' = Step("scanAbort")
                /\ UNCHANGED <<scanCur, nitroHandlers, serverHandlers>>
           ELSE /\ scanCur' = [scanCur EXCEPT !.file = c]
                /\ NitroPush(IF HasDefault(c)
                             THEN <<ActionRegistration(scanCur.route, scanCur.path)>>
                             ELSE << >>)
                /\ scanPc' = IF HasLoader(c) THEN "transform" ELSE "next"
                /\ last' = Step("scan")
    /\ UNCHANGED <<disk, dirs, gen, serverLoaders, loaderMap, shared, decl, declared,
                   scanTodo, scanSeen, tasks, nEvents, nEdits, unseen, nScans, rq, rs>>

\* esbuild's transform resolves; fsp.writeFile(handler, GENERATED_TEXT) starts
ScanTransform ==
    /\ scanPc = "transform"
    /\ scanPc' = "write"
    /\ last' = Step("scan")
    /\ UNCHANGED <<disk, dirs, gen, serverLoaders, loaderMap, nitroHandlers, serverHandlers,
                   shared, decl, declared, scanTodo, scanCur, scanSeen, tasks, nEvents,
                   nEdits, unseen, nScans, rq, rs>>

\* fsp.writeFile settles; fsp.appendFile(handler, shaked.code) starts
ScanWrite ==
    /\ scanPc = "write"
    /\ LET handler == LoaderHandlerPath(scanCur.route)
       IN  IF CanWrite(dirs, handler)
           THEN /\ gen' = fspWriteFile(gen, handler, GENERATED_TEXT)
                /\ scanPc' = "append"
                /\ last' = Step("scan")
           ELSE /\ scanPc' = "aborted"
                /\ last' = Step("scanAbort")
                /\ UNCHANGED gen
    /\ UNCHANGED <<disk, dirs, serverLoaders, loaderMap, nitroHandlers, serverHandlers,
                   shared, decl, declared, scanTodo, scanCur, scanSeen, tasks, nEvents,
                   nEdits, unseen, nScans, rq, rs>>

\* fsp.appendFile settles; writeLoader returns; the loader is registered
ScanAppend ==
    /\ scanPc = "append"
    /\ LET handler == LoaderHandlerPath(scanCur.route)
       IN  /\ gen' = fspAppendFile(gen, handler, CodeOf(scanCur.path, scanCur.file))
           /\ NitroPush(<<LoaderRegistration(scanCur.route, handler)>>)
           /\ serverLoaders' = Append(serverLoaders, scanCur.route)
           /\ loaderMap' = MapSet(loaderMap, LoaderEntry(scanCur.route, handler))
    /\ scanPc' = "next"
    /\ last' = Step("scan")
    /\ UNCHANGED <<disk, dirs, shared, decl, declared, scanTodo, scanCur, scanSeen,
                   tasks, nEvents, nEdits, unseen, nScans, rq, rs>>

\* ---------------------------------------------------------------- builder:watch
\* tasks holds the suspended invocations in the order their events arrived
Slots == 1..MaxEvents
Drop(q, i) == [k \in 1..(Len(q) - 1) |-> IF k < i THEN q[k] ELSE q[k + 1]]

\* The host calls the hook for an event: the synchronous head of the handler,
\* up to the call of loadFile. The host does not wait for the promise of one
\* call before it makes the next one.
WatchEvent(event, path) ==
    /\ scanPc = "done"
    /\ nEvents < MaxEvents
    /\ nEvents' = nEvents + 1
    /\ unseen' = unseen \ {path}
    /\ LET actionRoute == getActionRoute(path)
       IN  IF ~Includes(path, ServerActions)
           THEN /\ last' = Did("ignored", "", path, NoRoute, FALSE)
                /\ UNCHANGED <<serverLoaders, tasks>>
           ELSE IF Throws(actionRoute)
           THEN /\ last' = Did("error", "", path, NoRoute, FALSE)
                /\ UNCHANGED <<serverLoaders, tasks>>
           ELSE IF disk[path] = Absent
           THEN /\ serverLoaders' = removeLoaderFromServerLoader(serverLoaders, actionRoute)
                /\ last' = Did("missing", event, path, actionRoute, FALSE)
                /\ UNCHANGED tasks
           ELSE /\ tasks' = Append(tasks, [path |-> path, route |-> actionRoute,
                                           pc |-> "load", file |-> Absent, added |-> FALSE])
                /\ last' = Step("started")
                /\ UNCHANGED serverLoaders
    /\ UNCHANGED <<disk, dirs, gen, loaderMap, nitroHandlers, serverHandlers, shared,
                   decl, declared,
                   scanPc, scanTodo, scanCur, scanSeen, nEdits, nScans, rq, rs>>

\* loadFile settles: the handler is registered if the path has none, then
\* either writeLoader starts or the loader is removed
WatchLoad(i) ==
    /\ i <= Len(tasks)
    /\ tasks[i].pc = "load"
    /\ LET t == tasks[i]
           c == disk[t.path]
           has == hasHandler(serverHandlers, t.path)
       IN  IF ~Parses(c)
           THEN /\ tasks' = Drop(tasks, i)
                /\ last' = Did("error", "", t.path, t.route, FALSE)
                /\ UNCHANGED <<serverLoaders, nitroHandlers, serverHandlers>>
           ELSE /\ ServerPush(IF has THEN << >> ELSE <<PostRegistration(t.route, t.path)>>)
                /\ IF HasLoader(c)
                   THEN /\ tasks' = [tasks EXCEPT ![i] =
                                        [t EXCEPT !.pc = "write", !.file = c,
                                                  !.added = ~has]]
                        /\ last' = Step("loaded")
                        /\ UNCHANGED serverLoaders
                   ELSE /\ serverLoaders' = removeLoaderFromServerLoader(serverLoaders, t.route)
                        /\ tasks' = Drop(tasks, i)
                        /\ last' = Did("noLoader", "", t.path, t.route, ~has)
    /\ UNCHANGED <<disk, dirs, gen, loaderMap, shared, decl, declared, scanPc, scanTodo,
                   scanCur, scanSeen, nEvents, nEdits, unseen, nScans, rq, rs>>

\* esbuild's transform and then fsp.writeFile settle (the transform touches
\* nothing outside the invocation, so the two awaits are one suspension);
\* fsp.appendFile(handler, shaked.code) starts
WatchWrite(i) ==
    /\ i <= Len(tasks)
    /\ tasks[i].pc = "write"
    /\ LET t == tasks[i]
           handler == LoaderHandlerPath(t.route)
       IN  IF CanWrite(dirs, handler)
           THEN /\ gen' = fspWriteFile(gen, handler, GENERATED_TEXT)
                /\ tasks' = [tasks EXCEPT ![i].pc = "append"]
                /\ last' = Step("written")
           ELSE /\ tasks' = Drop(tasks, i)
                /\ last' = Did("error", "", t.path, t.route, t.added)
                /\ UNCHANGED gen
    /\ UNCHANGED <<disk, dirs, serverLoaders, loaderMap, nitroHandlers, serverHandlers,
                   shared, decl, declared, scanPc, scanTodo, scanCur, scanSeen, nEvents,
                   nEdits, unseen, nScans, rq, rs>>

\* fsp.appendFile settles; writeLoader returns; updateTemplates() is called;
\* a route that is not in serverLoaders is added to loaderMap and serverLoaders
WatchAppend(i) ==
    /\ i <= Len(tasks)
    /\ tasks[i].pc = "append"
    /\ LET t == tasks[i]
           handler == LoaderHandlerPath(t.route)
       IN  /\ gen' = fspAppendFile(gen, handler, CodeOf(t.path, t.file))
           /\ IF t.route \in Range(serverLoaders)
              THEN UNCHANGED <<loaderMap, serverLoaders>>
              ELSE /\ loaderMap' = MapSet(loaderMap, LoaderEntry(t.route, handler))
                   /\ serverLoaders' = Append(serverLoaders, t.route)
           /\ decl' = getContents(loaderMap')
           /\ tasks' = Drop(tasks, i)
           /\ last' = Did("loaderDone", "", t.path, t.route, t.added)
    /\ UNCHANGED <<disk, dirs, nitroHandlers, serverHandlers, shared, declared, scanPc,
                   scanTodo, scanCur, scanSeen, nEvents, nEdits, unseen, nScans, rq, rs>>

\* ---------------------------------------------------------------- environment
\* the developer creates, rewrites or deletes an action file while the
\* watcher runs
EditFile(path, c) ==
    /\ scanPc = "done"
    /\ nEdits < MaxEdits
    /\ c # disk[path]
    /\ disk' = [disk EXCEPT ![path] = c]
    /\ nEdits' = nEdits + 1
    /\ unseen' = unseen \cup {path}
    /\ last' = Step("edit")
    /\ UNCHANGED <<dirs, gen, serverLoaders, loaderMap, nitroHandlers, serverHandlers,
                   shared, decl, declared, scanPc, scanTodo, scanCur, scanSeen, tasks,
                   nEvents, nScans, rq, rs>>

Next ==
    \/ ScanStart
    \/ ScanNext
    \/ ScanLoad
    \/ ScanTransform
    \/ ScanWrite
    \/ ScanAppend
    \/ \E event \in Events, path \in EventPaths : WatchEvent(event, path)
    \/ \E i \in Slots : WatchLoad(i)
    \/ \E i \in Slots : WatchWrite(i)
    \/ \E i \in Slots : WatchAppend(i)
    \/ \E path \in Editable : \E c \in ContentsOf(path) \cup {Absent} : EditFile(path, c)

Spec == Init /\ [][Next]_vars

\* ---------------------------------------------------------------- configuration again
\* The host finalises its configuration once more and calls the nitro:config
\* hook again, between events, with the configuration object it handed
\* before. loaderMap and __serverLoaders__ are created in setup and live on.
ScanAgain ==
    /\ scanPc \in {"done", "aborted"}
    /\ tasks = << >>
    /\ nScans < MaxScans
    /\ nScans' = nScans + 1
    /\ scanPc' = "init"
    /\ scanTodo' = << >>
    /\ scanCur' = NoFile
    /\ scanSeen' = << >>
    /\ last' = Step("config")
    /\ UNCHANGED <<disk, dirs, gen, serverLoaders, loaderMap, nitroHandlers, serverHandlers,
                   shared, decl, declared, tasks, nEvents, nEdits, unseen, rq, rs>>

NextRescan ==
    \/ Next
    \/ ScanAgain

SpecRescan == Init /\ [][NextRescan]_vars

TypeOK == scanPc \in {"init", "next", "load", "transform", "write", "append", "done", "aborted"}

\* ---------------------------------------------------------------- route derivation alone
\* A path by its parts: what precedes the action root, the nested segments,
\* the file name and the extension.
Prefixes == {<<"/", "p">>, <<"/", "a", "c", "t", "i", "o", "n", "s", "/", "p">>}
Segments == {<< >>, <<"b", "/">>, <<"b", "/", "c", "/">>}
Names == {<<"a">>, <<"c">>, <<"a", ".", "t", "s", "v">>}
Exts == {<<"t", "s">>, <<"j", "s">>}
Queries == [prefix : Prefixes, segs : Segments, name : Names, ext : Exts]

PathOf(q) == q.prefix \o Slash \o ServerActions \o Slash \o q.segs \o q.name \o <<".">> \o q.ext

\* the path relative to the action root, extension stripped
RelativeName(q) == q.segs \o q.name

NotDerived == <<"?">>

InitRoute ==
    /\ rq \in Queries \X Queries
    /\ rs = <<NotDerived, NotDerived>>
    /\ disk = [p \in Pool |-> Absent]
    /\ dirs = {}
    /\ gen = << >>
    /\ serverLoaders = << >>
    /\ loaderMap = << >>
    /\ nitroHandlers = << >>
    /\ serverHandlers = << >>
    /\ shared = FALSE
    /\ decl = << >>
    /\ declared = 0
    /\ scanPc = "init"
    /\ scanTodo = << >>
    /\ scanCur = NoFile
    /\ scanSeen = << >>
    /\ tasks = << >>
    /\ nEvents = 0
    /\ nEdits = 0
    /\ unseen = {}
    /\ nScans = 1
    /\ last = Step("setup")

Derive ==
    /\ rs = <<NotDerived, NotDerived>>
    /\ rs' = <<getActionRoute(PathOf(rq[1])), getActionRoute(PathOf(rq[2]))>>
    /\ UNCHANGED <<disk, dirs, gen, serverLoaders, loaderMap, nitroHandlers, serverHandlers,
                   shared, decl, declared, scanPc, scanTodo, scanCur, scanSeen, tasks,
                   nEvents, nEdits, unseen, nScans, last, rq>>

NextRoute == Derive

SpecRoute == InitRoute /\ [][NextRoute]_vars

\* ---------------------------------------------------------------- properties
\* the handler list of the host: one array when the host shares it
Handlers == IF shared THEN serverHandlers ELSE nitroHandlers \o serverHandlers

DeclNames == {decl[k].name : k \in 1..Len(decl)}
DeclUrls == {decl[k].url : k \in 1..Len(decl)}
Idle == scanPc = "done" /\ tasks = << >>
Derivable(p) == getActionRoute(p) # NoRoute
Count(q, Test(_)) == Cardinality({k \in 1..Len(q) : Test(q[k])})
Others(sl, route) == SelectSeq(sl, LAMBDA r : r # route)
ScanOnly == scanPc \in {"done", "aborted"} /\ nEvents = 0 /\ nEdits = 0

\* C1: the routes in the published loader-name list are exactly the keys of
\* the loader entry map.
C1_NamesAreMapKeys == Range(serverLoaders) = MapKeys(loaderMap)

\* C2: whenever the updater is idle, the names (and URLs) rendered in the
\* declaration artifact are those of the published loader-name list.
C2_DeclarationMatchesNames ==
    Idle =>
        /\ DeclNames = Range(serverLoaders)
        /\ DeclUrls = {getLoaderRoute(r) : r \in Range(serverLoaders)}

\* C3: the handler list holds at most one registration per (method, path).
C3_OneRegistrationPerMethodAndPath ==
    \A i, j \in 1..Len(Handlers) :
        (Handlers[i].method = Handlers[j].method /\ Handlers[i].route = Handlers[j].route)
            => i = j

\* C4: after the full scan, every file it took whose route derives has one
\* registration of the primary export at /<route> if it has a primary export
\* and none otherwise, and one GET registration at /<prefix>/<route> with a
\* generated file if it has a loader export and neither otherwise.
C4_RegistrationsFollowExports ==
    ScanOnly =>
        \A p \in Range(scanSeen) :
            Derivable(p) =>
                LET r == getActionRoute(p)
                    IsPrimary(h) == h.method # "get" /\ h.route = Slash \o r
                    IsLoader(h) == h.method = "get" /\ h.route = getLoaderRoute(r)
                IN  /\ Count(nitroHandlers, IsPrimary) = (IF HasDefault(disk[p]) THEN 1 ELSE 0)
                    /\ Count(nitroHandlers, IsLoader) = (IF HasLoader(disk[p]) THEN 1 ELSE 0)
                    /\ (LoaderHandlerPath(r) \in DOMAIN gen) <=> HasLoader(disk[p])

\* C5: when every file of the action directory derives a route and parses,
\* the full scan completes, and every file with a loader export then has its
\* generated file, starting with the banner, and exactly one GET registration
\* backed by that file.
C5_LoaderFilesAreGenerated ==
    (ScanOnly /\ \A p \in Range(walkFiles(disk)) : Derivable(p) /\ Parses(disk[p])) =>
        /\ scanPc = "done"
        /\ \A p \in Range(walkFiles(disk)) :
              HasLoader(disk[p]) =>
                  LET r == getActionRoute(p)
                      handler == LoaderHandlerPath(r)
                      IsLoader(h) == /\ h.method = "get"
                                     /\ h.route = getLoaderRoute(r)
                                     /\ h.handler = handler
                  IN  /\ handler \in DOMAIN gen
                      /\ Head(gen[handler]) = GENERATED_TEXT
                      /\ Count(nitroHandlers, IsLoader) = 1

\* C6: handling an event whose file is no longer on disk removes the route of
\* the file from the loader-name list and changes nothing else: the other
\* names keep their order, the generated files, the entry map, the handler
\* lists and the declaration stay as they were.
C6_MissingFileRemovesOnlyItsName ==
    [][last'.op = "missing" =>
          /\ last'.route \notin Range(serverLoaders')
          /\ serverLoaders' = Others(serverLoaders, getActionRoute(last'.path))
          /\ gen' = gen
          /\ loaderMap' = loaderMap
          /\ nitroHandlers' = nitroHandlers
          /\ serverHandlers' = serverHandlers
          /\ decl' = decl /\ declared' = declared]_vars

\* a delete event for a file that had a loader has been handled: the name is
\* gone, the generated file is still there, another loader is still listed
C6_Witness ==
    /\ last.op = "missing"
    /\ last.event = "unlink"
    /\ disk[last.path] = Absent
    /\ last.route \in MapKeys(loaderMap)
    /\ last.route \notin Range(serverLoaders)
    /\ LoaderHandlerPath(last.route) \in DOMAIN gen
    /\ serverLoaders # << >>

\* C7: an invocation of the watch handler that ends in a caught failure has
\* not changed the registry (here: has not pushed a handler registration).
C7_FailureLeavesRegistry == last.op = "error" => ~last.added

\* C9: at most one invocation of the watch handler is under way at a time.
C9_OneEventAtATime == Len(tasks) <= 1

\* what makes the scan fail at a file: no route, a source that does not
\* parse, or a loader whose generated file cannot be written
FailsAt(p) ==
    \/ ~Derivable(p)
    \/ ~Parses(disk[p])
    \/ HasLoader(disk[p]) /\ ~CanWrite(dirs, LoaderHandlerPath(getActionRoute(p)))

Front(q) == Sub(q, 1, Len(q) - 1)

\* C8: the full scan stops at the first file at which route derivation,
\* parsing or writing fails: the files before it were processed, the files
\* after it are never taken from the walk and back no registration, and no
\* declaration is requested or rendered; a scan that completes has taken
\* every file of the walk and none of them fails.
C8_ScanFailsFast ==
    /\ (scanPc # "init" /\ nEdits = 0) =>
          /\ scanSeen \o scanTodo = walkFiles(disk)
          /\ \A p \in Range(scanTodo) : \A k \in 1..Len(nitroHandlers) :
                nitroHandlers[k].handler # p
    /\ (scanPc = "aborted") =>
          /\ scanSeen # << >>
          /\ FailsAt(scanSeen[Len(scanSeen)])
          /\ \A p \in Range(Front(scanSeen)) : ~FailsAt(p)
          /\ declared = 0
    /\ (scanPc = "done" /\ nEdits = 0) =>
          /\ scanTodo = << >>
          /\ \A p \in Range(scanSeen) : ~FailsAt(p)
    /\ (decl # << >> \/ declared # 0) => scanPc = "done"

\* the scan has stopped at a file whose route does not derive, with a later
\* file of the walk left untaken
C8_Witness ==
    /\ scanPc = "aborted"
    /\ scanSeen # << >>
    /\ ~Derivable(scanSeen[Len(scanSeen)])
    /\ scanTodo # << >>

\* C10: for a .ts file the derived route is the path relative to the action
\* root without the extension, whatever precedes the action root, and two
\* distinct files never derive the same route.
C10_RouteIsRelativeName ==
    (rs # <<NotDerived, NotDerived>> /\ rq[1].ext = <<"t", "s">> /\ rq[2].ext = <<"t", "s">>) =>
        /\ rs[1] = RelativeName(rq[1])
        /\ PathOf(rq[1]) # PathOf(rq[2]) => rs[1] # rs[2]

\* what the scan pushes for a file it has processed to the end: the
\* registration of the primary export, then the GET registration of the loader
ScanRegistrations(p) ==
    LET r == getActionRoute(p)
    IN  (IF HasDefault(disk[p]) THEN <<ActionRegistration(r, p)>> ELSE << >>)
        \o (IF HasLoader(disk[p])
            THEN <<LoaderRegistration(r, LoaderHandlerPath(r))>> ELSE << >>)

RECURSIVE RegistrationsOf(_)
RegistrationsOf(q) ==
    IF q = << >> THEN << >>
    ELSE RegistrationsOf(Front(q)) \o ScanRegistrations(q[Len(q)])

\* the registrations the scan has pushed when it stands at scanPc: those of
\* the files it has finished, and the primary registration of the file it is
\* extracting (or was extracting when the write failed)
ScanPushed ==
    IF scanPc = "init" THEN << >>
    ELSE IF scanPc \in {"next", "done"} THEN RegistrationsOf(scanSeen)
    ELSE LET p == scanSeen[Len(scanSeen)]
             reached == \/ scanPc \in {"transform", "write", "append"}
                        \/ scanPc = "aborted" /\ Derivable(p) /\ Parses(disk[p])
         IN  RegistrationsOf(Front(scanSeen))
             \o (IF reached /\ HasDefault(disk[p])
                 THEN <<ActionRegistration(getActionRoute(p), p)>> ELSE << >>)

Signature(h) == <<h.method, h.route>>
Signatures(q) == [k \in 1..Len(q) |-> Signature(q[k])]
AsPost(sig) == IF sig[1] = NoMethod THEN <<"post", sig[2]>> ELSE sig

InExtraction == scanPc \in {"transform", "write", "append"}
GeneratedLoaders == (DOMAIN gen) \ {GitignorePath}
Complete(f) == Len(f) = 2 /\ f[1] = GENERATED_TEXT /\ f[2].kind = "code"

\* C12: the scan extracts one loader at a time and declares once, at its end.
\* Until the first watch event the only generated file that is not complete
\* is the one the scan is writing; when the scan is in the extraction of a
\* file, every file before it in the walk is finished (its loader is
\* published and registered); addLoaderTypes() has run once when the scan is
\* done and not at all before, and the scan is done only when the walk is
\* exhausted.
C12_ScanExtractsOneAtATime ==
    /\ declared = (IF scanPc = "done" THEN 1 ELSE 0)
    /\ scanPc = "done" => scanTodo = << >>
    /\ (scanPc = "done" /\ nEdits = 0) => scanSeen = walkFiles(disk)
    /\ scanPc # "done" => decl = << >>
    /\ nEvents = 0 =>
          \A h \in GeneratedLoaders :
              IF scanPc = "append" /\ h = LoaderHandlerPath(scanCur.route)
              THEN gen[h] = <<GENERATED_TEXT>>
              ELSE Complete(gen[h])
    /\ InExtraction =>
          \A p \in Range(Front(scanSeen)) :
              HasLoader(disk[p]) =>
                  /\ getActionRoute(p) \in Range(serverLoaders)
                  /\ \E k \in 1..Len(nitroHandlers) :
                        nitroHandlers[k] = LoaderRegistration(getActionRoute(p),
                                               LoaderHandlerPath(getActionRoute(p)))

\* the scan is appending the code of its second loader while the generated
\* file of the first one is complete
C12_Witness ==
    /\ scanPc = "append"
    /\ scanCur.path = F_e
    /\ F_a \in Range(Front(scanSeen))
    /\ LoaderHandlerPath(getActionRoute(F_a)) \in DOMAIN gen
    /\ Complete(gen[LoaderHandlerPath(getActionRoute(F_a))])
    /\ gen[LoaderHandlerPath(getActionRoute(F_e))] = <<GENERATED_TEXT>>

\* every edit has had its watch event and every invocation has ended
Quiescent == scanPc = "done" /\ tasks = << >> /\ unseen = {}
OnDisk(route) == \E p \in Pool : disk[p] # Absent /\ getActionRoute(p) = route

\* C13: once every event has been handled, every route in the published
\* loader-name list is the route of an action file that is on disk.
C13_NoLoaderOfMissingFile ==
    Quiescent => \A r \in Range(serverLoaders) : OnDisk(r)

\* C14: in every state each generated loader file is the banner followed by
\* the complete code of one extraction.
C14_GeneratedFileIsAtomic == \A h \in GeneratedLoaders : Complete(gen[h])

\* two invocations for one route have both appended their code
C14_TwoCodes == \A h \in GeneratedLoaders : Len(gen[h]) <= 2

NoDuplicates(q) == \A i, j \in 1..Len(q) : q[i] = q[j] => i = j

\* C15: across full scans and watch events each route is in the published
\* loader-name list at most once and has at most one entry in the map (so
\* that extracting a loader that is already listed has added nothing).
C15_OneEntryPerRoute ==
    /\ NoDuplicates(serverLoaders)
    /\ NoDuplicates([k \in 1..Len(loaderMap) |-> loaderMap[k].name])

\* C16: every route in the published loader-name list has a GET registration
\* at /<loader-prefix>/<route> in the handler list.
C16_ListedLoaderIsRegistered ==
    \A r \in Range(serverLoaders) :
        \E k \in 1..Len(Handlers) :
            Handlers[k].method = "get" /\ Handlers[k].route = getLoaderRoute(r)

\* C17: every entry of the loader entry map refers to a generated file that
\* exists; it is stated here for the states in which no scan and no watch
\* invocation is under way, where a scan has either regenerated a file it
\* deleted or not.
C17_MapEntriesHaveFiles ==
    Idle => \A k \in 1..Len(loaderMap) : loaderMap[k].filePath \in DOMAIN gen

IsPrefix(q, r) == Len(q) <= Len(r) /\ SubSeq(r, 1, Len(q)) = q
Backed(sh, path) == \E k \in 1..Len(sh) : sh[k].handler = path
Reclassified == last'.op \in {"loaded", "noLoader"}

\* C18 (amended): a step of the watch handler leaves every registration in
\* place, in both handler lists; the list of the host changes only when
\* loadFile has settled for an event, and then by one POST lazy
\* registration for the path of the event, added exactly when the list holds
\* no registration backed by that path, whether or not the file has a
\* primary export.
C18_EventsOnlyAddRegistrations ==
    [][(scanPc = "done" /\ scanPc' = "done") =>
          /\ IsPrefix(serverHandlers, serverHandlers')
          /\ IsPrefix(nitroHandlers, nitroHandlers')
          /\ serverHandlers' # serverHandlers => Reclassified
          /\ Reclassified =>
                \E i \in 1..Len(tasks) :
                    /\ tasks[i].pc = "load"
                    /\ serverHandlers' = serverHandlers \o
                          (IF Backed(serverHandlers, tasks[i].path) THEN << >>
                           ELSE <<PostRegistration(tasks[i].route, tasks[i].path)>>)]_vars

\* the delete event of e.ts, a file without primary export, has been handled
\* and the POST registration an earlier event added for it is still there
C18_Witness ==
    /\ last.op = "missing"
    /\ last.path = F_e
    /\ disk[F_e] = Absent
    /\ \E k \in 1..Len(serverHandlers) :
          serverHandlers[k] = PostRegistration(getActionRoute(F_e), F_e)

\* C18 as stated: every add/change event for a file that is on disk adds a
\* POST registration.
C18_EveryEventAddsPost ==
    [][Reclassified => Len(serverHandlers') = Len(serverHandlers) + 1]_vars
====
